---- MODULE Spec2Model ----
(***************************************************************************)
(* StateMachine<T, Args...> of include/fsm.hpp: a flat finite-state        *)
(* machine with guarded transitions, enter/exit callbacks and a one-slot   *)
(* transition cache per state.  T is modelled by 1..MaxStates, Args... by  *)
(* one number (the `speed` of main.cpp), a guard by its threshold.         *)
(* Every public method is one action; the calls it makes are operators     *)
(* that thread a small record (current_state, cache, log) through the      *)
(* statements of the method, so that the order of the statements is kept.  *)
(* `last` records the most recent call: its inputs, the current state and  *)
(* the current state's cache slot before it, its return value and the log  *)
(* of guard evaluations, cache writes, callbacks and pointer assignments   *)
(* it made.                                                                *)
(***************************************************************************)
EXTENDS Integers, Sequences, FiniteSets, TLC

\* ------------------------------------------------------------- bounds ----
MaxStates == 2
MaxTransitions == 2
MaxEntity == 2
MaxArg == 2
MaxCond == 1

Names == 1..MaxStates
EntityIds == 1..MaxEntity
ArgValues == 0..MaxArg
Conditions == 0..MaxCond

\* a null shared_ptr<State>, a null std::function, no owner of a mutex
NoState == 0
NoThread == 0
NoCallback == 0
Callback == 1

VARIABLES states, entity_id, transitions, on_enter, on_exit, cache,
          current_state, last, history, ndebug, outcome, null_entries,
          lock, thread, obs

\* history: the calls of a driven scenario, each with what it left and fired
\* ndebug: whether the build defines NDEBUG, which turns every assert into nothing
\* outcome: "running", or how the program left the contract of the machine
\* null_entries: the names the registry maps to a null shared_ptr<State>
\* lock: the owner of each state's cache_mutex
\* thread: each thread's stack of calls into the machine, with where each is
\* obs: what the last step of a thread did, with the locks the thread held
threads == <<lock, thread, obs>>

ext == <<history, ndebug, outcome, null_entries, threads>>

vars == <<states, entity_id, transitions, on_enter, on_exit, cache,
          current_state, last, ext>>

\* ------------------------------------------------------ TransitionCache --
\* std::optional<TransitionCache>: std::nullopt, or (target, transition_idx)
nullopt == [present |-> FALSE, target |-> NoState, transition_idx |-> 0]

\* ---------------------------------------------------------- call frames --
\* the threads that call into one machine
Threads == {1, 2}

\* a call of update or can_transition_to about to lock the cache of state s
Frame(op, a, target, s) ==
    [op |-> op, pc |-> "lock_probe", arg |-> a, target |-> target, s |-> s,
     trs |-> NoState, i |-> 0, probed |-> nullopt, nested |-> FALSE]

\* a thread outside the machine
Idle == [Frame("none", 0, NoState, NoState) EXCEPT !.pc = "idle"]

TransitionCache(to, idx) == [present |-> TRUE, target |-> to, transition_idx |-> idx]

\* ----------------------------------------------------------- Transition --
Transition(to, cond) == [to |-> to, condition |-> cond]

\* the guards of main.cpp: speed > threshold, the entity id is not used
condition(cond, id, a) == a > cond

check_condition(tr, id, a) == condition(tr.condition, id, a)

\* transitions[i] of a std::vector (0-based)
At(trs, i) == trs[i + 1]

\* ------------------------------------------------------------- the log ---
GuardEv(path, s, i, id, r) ==
    [ev |-> "guard", path |-> path, state |-> s, idx |-> i, id |-> id, ret |-> r, cur |-> NoState]

ResetEv(s) ==
    [ev |-> "reset", path |-> "", state |-> s, idx |-> 0, id |-> 0, ret |-> FALSE, cur |-> NoState]

EmplaceEv(s, i, to) ==
    [ev |-> "emplace", path |-> "", state |-> s, idx |-> i, id |-> 0, ret |-> FALSE, cur |-> to]

CallbackEv(kind, s, id, cur) ==
    [ev |-> kind, path |-> "", state |-> s, idx |-> 0, id |-> id, ret |-> FALSE, cur |-> cur]

AssignEv(s) ==
    [ev |-> "assign", path |-> "", state |-> s, idx |-> 0, id |-> 0, ret |-> FALSE, cur |-> s]

\* the part of the machine a call can change, and what it has done so far
Machine(cur, c, log) == [current_state |-> cur, cache |-> c, log |-> log, ret |-> FALSE]

\* ---------------------------------------------------------------- State --
\* TransitionCache::try_transition, called on the state s that owns the slot
try_transition(c, s, id, a) == check_condition(At(transitions[s], c.transition_idx), id, a)

\* try_cached_transition without the cache.reset() of line 138
try_cached_transition_keep(m, s, id, a) ==
    IF m.cache[s].present
    THEN LET r == try_transition(m.cache[s], s, id, a)
         IN  [m EXCEPT !.ret = r,
                       !.log = Append(@, GuardEv("cache", s, m.cache[s].transition_idx, id, r))]
    ELSE [m EXCEPT !.ret = FALSE]

\* State::try_cached_transition on state s of machine record m
try_cached_transition(m, s, id, a) ==
    IF m.cache[s].present
    THEN LET r == try_transition(m.cache[s], s, id, a)
             ev == GuardEv("cache", s, m.cache[s].transition_idx, id, r)
         IN  IF r
             THEN [m EXCEPT !.ret = TRUE, !.log = Append(@, ev)]
             ELSE [m EXCEPT !.ret = FALSE, !.cache[s] = nullopt,
                            !.log = @ \o <<ev, ResetEv(s)>>]
    ELSE [m EXCEPT !.ret = FALSE, !.cache[s] = nullopt, !.log = Append(@, ResetEv(s))]

\* State::update_cache on state s
update_cache(m, s, idx, target) ==
    [m EXCEPT !.cache[s] = TransitionCache(target, idx),
              !.log = Append(@, EmplaceEv(s, idx, target))]

\* State::enter / State::exit on state s, observed while m.current_state is current
enter(m, s) ==
    IF on_enter[s] # NoCallback
    THEN [m EXCEPT !.log = Append(@, CallbackEv("enter", s, entity_id[s], m.current_state))]
    ELSE m

exit(m, s) ==
    IF on_exit[s] # NoCallback
    THEN [m EXCEPT !.log = Append(@, CallbackEv("exit", s, entity_id[s], m.current_state))]
    ELSE m

\* handle_transition calling enter on the new state before the pointer is reassigned
handle_transition_enter_first(m, new_state) ==
    LET m1 == exit(m, m.current_state)
        m2 == enter(m1, new_state)
    IN  [m2 EXCEPT !.current_state = new_state, !.log = Append(@, AssignEv(new_state))]

\* handle_transition without the call of exit on the state left
handle_transition_no_exit(m, new_state) ==
    LET m2 == [m EXCEPT !.current_state = new_state, !.log = Append(@, AssignEv(new_state))]
    IN  enter(m2, m2.current_state)

\* --------------------------------------------------------- StateMachine --
handle_transition(m, new_state) ==
    LET m1 == exit(m, m.current_state)
        m2 == [m1 EXCEPT !.current_state = new_state, !.log = Append(@, AssignEv(new_state))]
    IN  enter(m2, m2.current_state)

\* the for loop of update without the break of line 277
RECURSIVE update_scan_no_break(_, _, _, _)
update_scan_no_break(m, trs, i, a) ==
    IF i >= Len(trs) THEN m
    ELSE LET cur == m.current_state
             r == check_condition(At(trs, i), entity_id[cur], a)
             m1 == [m EXCEPT !.log = Append(@, GuardEv("scan", cur, i, entity_id[cur], r))]
         IN  IF r
             THEN LET target == At(trs, i).to
                  IN  update_scan_no_break(
                          handle_transition(update_cache(m1, cur, i, target), target),
                          trs, i + 1, a)
             ELSE update_scan_no_break(m1, trs, i + 1, a)

\* the for loop of update storing the match in the slot of the target state
RECURSIVE update_scan_cache_on_target(_, _, _, _)
update_scan_cache_on_target(m, trs, i, a) ==
    IF i >= Len(trs) THEN m
    ELSE LET cur == m.current_state
             r == check_condition(At(trs, i), entity_id[cur], a)
             m1 == [m EXCEPT !.log = Append(@, GuardEv("scan", cur, i, entity_id[cur], r))]
         IN  IF r
             THEN LET target == At(trs, i).to
                  IN  handle_transition(update_cache(m1, target, i, target), target)
             ELSE update_scan_cache_on_target(m1, trs, i + 1, a)

\* the for loop of update from index i on; trs is the reference taken before the loop
RECURSIVE update_scan(_, _, _, _)
update_scan(m, trs, i, a) ==
    IF i >= Len(trs) THEN m
    ELSE LET cur == m.current_state
             r == check_condition(At(trs, i), entity_id[cur], a)
             m1 == [m EXCEPT !.log = Append(@, GuardEv("scan", cur, i, entity_id[cur], r))]
         IN  IF r
             THEN LET target == At(trs, i).to
                  IN  handle_transition(update_cache(m1, cur, i, target), target)
             ELSE update_scan(m1, trs, i + 1, a)

\* update returning after a failed cache probe instead of scanning
update_no_scan(m, a) ==
    LET cur == m.current_state
        m1 == try_cached_transition(m, cur, entity_id[cur], a)
    IN  IF m1.ret
        THEN handle_transition(m1, m1.cache[cur].target)
        ELSE IF m.cache[cur].present THEN m1 ELSE update_scan(m1, transitions[cur], 0, a)

\* update without the return of line 264: the scan follows the cached transition
update_no_return(m, a) ==
    LET cur == m.current_state
        m1 == try_cached_transition(m, cur, entity_id[cur], a)
        m2 == IF m1.ret THEN handle_transition(m1, m1.cache[cur].target) ELSE m1
    IN  update_scan(m2, transitions[m2.current_state], 0, a)

update(m, a) ==
    LET cur == m.current_state
        m1 == try_cached_transition(m, cur, entity_id[cur], a)
    IN  IF m1.ret
        THEN handle_transition(m1, m1.cache[cur].target)
        ELSE update_scan(m1, transitions[cur], 0, a)

\* the for loop of can_transition_to without the target test of line 305
RECURSIVE can_scan_any_target(_, _, _, _, _)
can_scan_any_target(m, trs, i, target, a) ==
    IF i >= Len(trs) THEN [m EXCEPT !.ret = FALSE]
    ELSE LET cur == m.current_state
             r == check_condition(At(trs, i), entity_id[cur], a)
             m1 == [m EXCEPT !.log = Append(@, GuardEv("scan", cur, i, entity_id[cur], r))]
         IN  IF r
             THEN [update_cache(m1, cur, i, target) EXCEPT !.ret = TRUE]
             ELSE can_scan_any_target(m1, trs, i + 1, target, a)

\* the for loop of can_transition_to from index i on
RECURSIVE can_scan(_, _, _, _, _)
can_scan(m, trs, i, target, a) ==
    IF i >= Len(trs) THEN [m EXCEPT !.ret = FALSE]
    ELSE LET cur == m.current_state
         IN  IF At(trs, i).to = target
             THEN LET r == check_condition(At(trs, i), entity_id[cur], a)
                      m1 == [m EXCEPT !.log = Append(@, GuardEv("scan", cur, i, entity_id[cur], r))]
                  IN  IF r
                      THEN [update_cache(m1, cur, i, target) EXCEPT !.ret = TRUE]
                      ELSE can_scan(m1, trs, i + 1, target, a)
             ELSE can_scan(m, trs, i + 1, target, a)

\* can_transition_to performing the transition it finds on the cached path
can_transition_to_moves(m, target, a) ==
    LET cur == m.current_state
        m1 == try_cached_transition(m, cur, entity_id[cur], a)
    IN  IF m1.ret
        THEN [handle_transition(m1, m1.cache[cur].target)
                 EXCEPT !.ret = (m1.cache[cur].target = target)]
        ELSE can_scan(m1, transitions[cur], 0, target, a)

can_transition_to(m, target, a) ==
    LET cur == m.current_state
        m1 == try_cached_transition(m, cur, entity_id[cur], a)
    IN  IF m1.ret
        THEN [m1 EXCEPT !.ret = (m1.cache[cur].target = target)]
        ELSE can_scan(m1, transitions[cur], 0, target, a)

\* ---------------------------------------------------------- the record ---
\* from and precache are the current state and its cache slot when the call
\* began; target is the state the call names; ret is the value returned (for
\* add_state: whether the existing state was returned)
Call(op, from, c, target, a, ret, log) ==
    [op |-> op, from |-> from, precache |-> c, target |-> target, arg |-> a,
     ret |-> ret, log |-> log]

\* the number of transitions the machine owns (the model stops adding at MaxTransitions)
RECURSIVE SumLen(_)
SumLen(S) == IF S = {} THEN 0
             ELSE LET s == CHOOSE x \in S : TRUE IN Len(transitions[s]) + SumLen(S \ {s})

TotalTransitions == SumLen(Names)

\* --------------------------------------------------------------- Init ----
Init ==
    /\ states = {}
    /\ entity_id = [s \in Names |-> 0]
    /\ transitions = [s \in Names |-> <<>>]
    /\ on_enter = [s \in Names |-> NoCallback]
    /\ on_exit = [s \in Names |-> NoCallback]
    /\ cache = [s \in Names |-> nullopt]
    /\ current_state = NoState
    /\ last = Call("new", NoState, nullopt, NoState, 0, FALSE, <<>>)
    /\ history = <<>>
    /\ ndebug = FALSE
    /\ outcome = "running"
    /\ null_entries = {}
    /\ lock = [s \in Names |-> NoThread]
    /\ thread = [t \in Threads |-> <<Idle>>]
    /\ obs = <<>>

\* ------------------------------------------------------------ actions ----
\* add_state without the !current_state test of line 222
add_state_always_current(name, id) ==
    IF name \in states
    THEN [states |-> states, entity_id |-> entity_id, current_state |-> current_state]
    ELSE [states |-> states \cup {name},
          entity_id |-> [entity_id EXCEPT ![name] = id],
          current_state |-> name]

\* add_state without the contains test of line 217
add_state_overwrite(name, id) ==
    [states |-> states \cup {name},
     entity_id |-> [entity_id EXCEPT ![name] = id],
     current_state |-> IF current_state = NoState THEN name ELSE current_state]

add_state(name, id) ==
    IF name \in states
    THEN [states |-> states, entity_id |-> entity_id, current_state |-> current_state]
    ELSE [states |-> states \cup {name},
          entity_id |-> [entity_id EXCEPT ![name] = id],
          current_state |-> IF current_state = NoState THEN name ELSE current_state]

AddState(name, id) ==
    LET r == add_state(name, id)
    IN  /\ outcome = "running"
        /\ states' = r.states
        /\ entity_id' = r.entity_id
        /\ current_state' = r.current_state
        /\ last' = Call("add_state", current_state, nullopt, name, id, name \in states, <<>>)
        /\ UNCHANGED <<transitions, on_enter, on_exit, cache, ext>>

AddTransition(from, to, cond) ==
    /\ outcome = "running"
    /\ from \in states /\ to \in states
    /\ TotalTransitions < MaxTransitions
    /\ transitions' = [transitions EXCEPT ![from] = Append(@, Transition(to, cond))]
    /\ last' = Call("add_transition", NoState, nullopt, NoState, 0, FALSE, <<>>)
    /\ UNCHANGED <<states, entity_id, on_enter, on_exit, cache, current_state, ext>>

\* State::set_callbacks: a null argument leaves the slot as it is
set_callbacks(old, new) == IF new # NoCallback THEN new ELSE old

SetCallback(state, e, x) ==
    /\ outcome = "running"
    /\ state \in states
    /\ on_enter' = [on_enter EXCEPT ![state] = set_callbacks(@, e)]
    /\ on_exit' = [on_exit EXCEPT ![state] = set_callbacks(@, x)]
    /\ last' = Call("set_callback", NoState, nullopt, NoState, 0, FALSE, <<>>)
    /\ UNCHANGED <<states, entity_id, transitions, cache, current_state, ext>>

StartCall ==
    /\ outcome = "running"
    /\ current_state # NoState
    /\ LET m == enter(Machine(current_state, cache, <<>>), current_state)
       IN  last' = Call("start", current_state, cache[current_state], NoState, 0,
                        FALSE, m.log)
    /\ UNCHANGED <<states, entity_id, transitions, on_enter, on_exit, cache, current_state>>

Start == StartCall /\ UNCHANGED ext

UpdateCall(a) ==
    /\ outcome = "running"
    /\ current_state # NoState
    /\ LET m == update(Machine(current_state, cache, <<>>), a)
       IN  /\ current_state' = m.current_state
           /\ cache' = m.cache
           /\ last' = Call("update", current_state, cache[current_state], NoState, a,
                           FALSE, m.log)
    /\ UNCHANGED <<states, entity_id, transitions, on_enter, on_exit>>

Update(a) == UpdateCall(a) /\ UNCHANGED ext

CanTransitionTo(state, a) ==
    /\ outcome = "running"
    /\ current_state # NoState /\ state \in states
    /\ LET m == can_transition_to(Machine(current_state, cache, <<>>), state, a)
       IN  /\ current_state' = m.current_state
           /\ cache' = m.cache
           /\ last' = Call("can_transition_to", current_state, cache[current_state],
                           state, a, m.ret, m.log)
    /\ UNCHANGED <<states, entity_id, transitions, on_enter, on_exit, ext>>

Next ==
    \/ \E name \in Names, id \in EntityIds : AddState(name, id)
    \/ \E from \in Names, to \in Names, cond \in Conditions : AddTransition(from, to, cond)
    \/ \E state \in Names, e \in {NoCallback, Callback}, x \in {NoCallback, Callback} :
          SetCallback(state, e, x)
    \/ Start
    \/ \E a \in ArgValues : Update(a)
    \/ \E state \in Names, a \in ArgValues : CanTransitionTo(state, a)

Spec == Init /\ [][Next]_vars

\* --------------------------------------------- calls outside the contract --
\* the same machine in either build
InitAssert ==
    /\ states = {}
    /\ entity_id = [s \in Names |-> 0]
    /\ transitions = [s \in Names |-> <<>>]
    /\ on_enter = [s \in Names |-> NoCallback]
    /\ on_exit = [s \in Names |-> NoCallback]
    /\ cache = [s \in Names |-> nullopt]
    /\ current_state = NoState
    /\ last = Call("new", NoState, nullopt, NoState, 0, FALSE, <<>>)
    /\ history = <<>>
    /\ ndebug \in BOOLEAN
    /\ outcome = "running"
    /\ null_entries = {}
    /\ lock = [s \in Names |-> NoThread]
    /\ thread = [t \in Threads |-> <<Idle>>]
    /\ obs = <<>>

\* assert(false): abort() unless NDEBUG is defined
AssertFails(op, name, a) ==
    /\ ~ndebug
    /\ outcome' = "assert"
    /\ last' = Call(op, current_state, nullopt, name, a, FALSE, <<>>)
    /\ UNCHANGED <<states, entity_id, transitions, on_enter, on_exit, cache, current_state,
                   history, ndebug, null_entries, threads>>

\* a call through a null shared_ptr<State>: undefined, the access faults
NullDeref(op, name, a, inserted) ==
    /\ outcome' = "crash"
    /\ null_entries' = null_entries \cup inserted
    /\ last' = Call(op, current_state, nullopt, name, a, FALSE, <<>>)
    /\ UNCHANGED <<states, entity_id, transitions, on_enter, on_exit, cache, current_state,
                   history, ndebug, threads>>

\* add_transition with from or to missing.  Without the assert, states[to]
\* (line 235) and states[from] (line 236) each insert a null entry for a
\* missing name; a missing from is then dereferenced, an existing from gets a
\* transition whose target is null.
BadAddTransition(from, to, cond) ==
    /\ outcome = "running"
    /\ ~(from \in states /\ to \in states)
    /\ \/ AssertFails("add_transition", to, cond)
       \/ /\ ndebug /\ from \notin states
          /\ NullDeref("add_transition", to, cond, {from, to} \ states)
       \/ /\ ndebug /\ from \in states
          /\ TotalTransitions < MaxTransitions
          /\ null_entries' = null_entries \cup {to}
          /\ transitions' = [transitions EXCEPT ![from] = Append(@, Transition(NoState, cond))]
          /\ outcome' = "continued"
          /\ last' = Call("add_transition", current_state, nullopt, to, cond, FALSE, <<>>)
          /\ UNCHANGED <<states, entity_id, on_enter, on_exit, cache, current_state,
                         history, ndebug, threads>>

\* set_callback with the state missing.  Without the assert, states[state]
\* inserts a null entry and set_callbacks runs on the null state: it writes
\* through it when a callback is given and touches nothing when none is.
BadSetCallback(state, e, x) ==
    /\ outcome = "running"
    /\ state \notin states
    /\ \/ AssertFails("set_callback", state, 0)
       \/ /\ ndebug
          /\ NullDeref("set_callback", state, 0, {state})
       \/ /\ ndebug /\ e = NoCallback /\ x = NoCallback
          /\ null_entries' = null_entries \cup {state}
          /\ outcome' = "continued"
          /\ last' = Call("set_callback", current_state, nullopt, state, 0, FALSE, <<>>)
          /\ UNCHANGED <<states, entity_id, transitions, on_enter, on_exit, cache,
                         current_state, history, ndebug, threads>>

\* can_transition_to with no current state or a missing state.  Without the
\* assert, states.at(state) throws std::out_of_range for a missing state, and
\* a null current_state is dereferenced.
BadCanTransitionTo(state, a) ==
    /\ outcome = "running"
    /\ ~(current_state # NoState /\ state \in states)
    /\ \/ AssertFails("can_transition_to", state, a)
       \/ /\ ndebug /\ state \notin states
          /\ outcome' = "throw"
          /\ last' = Call("can_transition_to", current_state, nullopt, state, a, FALSE, <<>>)
          /\ UNCHANGED <<states, entity_id, transitions, on_enter, on_exit, cache,
                         current_state, history, ndebug, null_entries, threads>>
       \/ /\ ndebug /\ state \in states
          /\ NullDeref("can_transition_to", state, a, {})

\* update, start and get_current_state before any state exists
BadNoCurrent(op, a) ==
    /\ outcome = "running"
    /\ current_state = NoState
    /\ \/ AssertFails(op, NoState, a)
       \/ ndebug /\ NullDeref(op, NoState, a, {})

\* get_current_state on a machine that has a current state: a pure read
GetCurrentState ==
    /\ outcome = "running"
    /\ current_state # NoState
    /\ last' = Call("get_current_state", current_state, nullopt, current_state, 0, FALSE, <<>>)
    /\ UNCHANGED <<states, entity_id, transitions, on_enter, on_exit, cache, current_state, ext>>

\* the calls inside the contract, with the arguments for which no guard and
\* every guard is true, and the calls outside it
NextAssert ==
    \/ \E name \in Names, id \in EntityIds : AddState(name, id)
    \/ \E from \in Names, to \in Names, cond \in Conditions : AddTransition(from, to, cond)
    \/ \E state \in Names, e \in {NoCallback, Callback}, x \in {NoCallback, Callback} :
          SetCallback(state, e, x)
    \/ Start
    \/ \E a \in {0, MaxArg} : Update(a)
    \/ \E state \in Names, a \in {0, MaxArg} : CanTransitionTo(state, a)
    \/ GetCurrentState
    \/ \E from \in Names, to \in Names, cond \in Conditions : BadAddTransition(from, to, cond)
    \/ \E state \in Names, e \in {NoCallback, Callback}, x \in {NoCallback, Callback} :
          BadSetCallback(state, e, x)
    \/ \E state \in Names, a \in ArgValues : BadCanTransitionTo(state, a)
    \/ \E op \in {"update", "start", "get_current_state"}, a \in ArgValues :
          (op = "update" \/ a = 0) /\ BadNoCurrent(op, a)

SpecAssert == InitAssert /\ [][NextAssert]_vars

\* ------------------------------------------- calls running concurrently ---
\* A call of update or can_transition_to made by a thread, one step for each
\* stretch of it that another thread can observe.  Every current_state-> of
\* the source reads the pointer when its step is taken.

\* a guard that calls can_transition_to or update on its own machine, once,
\* before it answers true
Reentrant == -1

\* what a thread's stack of calls may hold: the outer call and one made by a guard
MaxDepth == 2

\* the part of the machine no call of update or can_transition_to writes
fixed == <<states, entity_id, transitions, on_enter, on_exit, last, history, ndebug,
           null_entries>>

\* the innermost call of thread t
Top(t) == thread[t][Len(thread[t])]

SetTop(t, f) == [thread EXCEPT ![t] = [@ EXCEPT ![Len(@)] = f]]

\* the cache mutexes thread t owns
Held(t) == {s \in Names : lock[s] = t}

\* one thing a step did: kind on state s, seeing or leaving slot there
Obs(t, kind, path, s, slot, r) ==
    [thread |-> t, op |-> Top(t).op, depth |-> Len(thread[t]), kind |-> kind,
     path |-> path, state |-> s, held |-> Held(t), slot |-> slot,
     probed |-> Top(t).probed, ret |-> r]

\* the innermost call of t returns: to the guard that made it, or out of the machine
Returned(t) ==
    LET st == thread[t]
        n == Len(st)
    IN  IF n = 1
        THEN [thread EXCEPT ![t] = <<Idle>>]
        ELSE [thread EXCEPT ![t] = [SubSeq(st, 1, n - 1) EXCEPT ![n - 1].nested = TRUE]]

\* the guard the innermost call of t evaluates in its next step, if any
PendingGuard(t) ==
    LET f == Top(t)
    IN  IF f.pc = "probe"
        THEN IF cache[f.s].present /\ cache[f.s].transition_idx < Len(transitions[f.s])
             THEN {At(transitions[f.s], cache[f.s].transition_idx).condition}
             ELSE {}
        ELSE IF f.pc = "scan" /\ f.i < Len(transitions[f.trs])
                  /\ (f.op = "update" \/ At(transitions[f.trs], f.i).to = f.target)
             THEN {At(transitions[f.trs], f.i).condition}
             ELSE {}

\* a re-entrant guard has made its call, or is itself run by such a call
Ready(t) == PendingGuard(t) = {Reentrant} => (Top(t).nested \/ Len(thread[t]) > 1)

\* update(a) or can_transition_to(target, a) is called: line 259 / 294 reads
\* current_state for the call of try_cached_transition
BeginCall(t, op, target, a) ==
    /\ outcome = "running"
    /\ thread[t] = <<Idle>>
    /\ current_state # NoState
    /\ IF op = "update" THEN target = NoState ELSE target \in states
    /\ thread' = SetTop(t, Frame(op, a, target, current_state))
    /\ obs' = <<>>
    /\ UNCHANGED <<fixed, cache, current_state, lock, outcome>>

\* std::lock_guard lock(cache_mutex) without taking the mutex
LockCache_no_acquire(t) ==
    LET f == Top(t)
    IN  /\ outcome = "running"
        /\ f.pc \in {"lock_probe", "lock_store"}
        /\ lock[f.s] = NoThread
        /\ thread' = SetTop(t, [f EXCEPT !.pc = IF f.pc = "lock_probe" THEN "probe" ELSE "store"])
        /\ obs' = <<>>
        /\ UNCHANGED <<fixed, cache, current_state, lock, outcome>>

\* std::lock_guard lock(cache_mutex), lines 134 and 144: waits while another
\* thread owns the mutex
LockCache(t) ==
    LET f == Top(t)
    IN  /\ outcome = "running"
        /\ f.pc \in {"lock_probe", "lock_store"}
        /\ lock[f.s] = NoThread
        /\ lock' = [lock EXCEPT ![f.s] = t]
        /\ thread' = SetTop(t, [f EXCEPT !.pc = IF f.pc = "lock_probe" THEN "probe" ELSE "store"])
        /\ obs' = <<>>
        /\ UNCHANGED <<fixed, cache, current_state, outcome>>

\* std::lock_guard on a mutex the thread itself owns: undefined, the thread
\* blocks for ever or lock() throws std::system_error
Relock(t) ==
    LET f == Top(t)
    IN  /\ outcome = "running"
        /\ f.pc \in {"lock_probe", "lock_store"}
        /\ lock[f.s] = t
        /\ obs' = <<Obs(t, "relock", "", f.s, cache[f.s], FALSE)>>
        /\ \/ thread' = SetTop(t, [f EXCEPT !.pc = "blocked"]) /\ UNCHANGED outcome
           \/ outcome' = "throw" /\ UNCHANGED thread
        /\ UNCHANGED <<fixed, cache, current_state, lock>>

\* the body of try_cached_transition, lines 135-139, and the release of the
\* mutex.  An index outside the state's transitions is undefined.
Probe(t) ==
    LET f == Top(t)
        c == cache[f.s]
        inrange == c.transition_idx < Len(transitions[f.s])
        results == IF ~c.present THEN {"miss"}
                   ELSE IF inrange
                        THEN {IF try_transition(c, f.s, entity_id[f.s], f.arg)
                              THEN "hit" ELSE "miss"}
                        ELSE {"hit", "miss", "crash"}
        read == <<Obs(t, "probe", "cache", f.s, c, FALSE)>>
        guard(r) == IF c.present THEN <<Obs(t, "guard", "cache", f.s, c, r)>> ELSE <<>>
    IN  /\ outcome = "running"
        /\ f.pc = "probe"
        /\ Ready(t)
        /\ \E r \in results :
             \/ /\ r = "hit"
                /\ thread' = SetTop(t, [f EXCEPT !.pc = "read_target", !.probed = c,
                                                 !.nested = FALSE])
                /\ obs' = read \o guard(TRUE)
                /\ lock' = [lock EXCEPT ![f.s] = NoThread]
                /\ UNCHANGED <<cache, outcome>>
             \/ /\ r = "miss"
                /\ cache' = [cache EXCEPT ![f.s] = nullopt]
                /\ thread' = SetTop(t, [f EXCEPT !.pc = "scan_begin", !.nested = FALSE])
                /\ obs' = read \o guard(FALSE) \o <<Obs(t, "reset", "cache", f.s, nullopt, FALSE)>>
                /\ lock' = [lock EXCEPT ![f.s] = NoThread]
                /\ UNCHANGED outcome
             \/ /\ r = "crash"
                /\ outcome' = "crash"
                /\ obs' = read
                /\ UNCHANGED <<cache, thread, lock>>
        /\ UNCHANGED <<fixed, current_state>>

\* current_state->get_cache()->get_target(), lines 263 and 299: the slot of
\* the state that is current now, read with no mutex taken.  Reading through
\* an empty optional is undefined: a stale target or a fault.
ReadTarget(t) ==
    LET f == Top(t)
        s == current_state
        c == cache[s]
        seen == IF c.present THEN {c.target} ELSE states \cup {NoState}
        read == Obs(t, "read", "cache", s, c, FALSE)
    IN  /\ outcome = "running"
        /\ f.pc = "read_target"
        /\ \E target \in seen :
             IF target = NoState
             THEN /\ outcome' = "crash"
                  /\ obs' = <<read>>
                  /\ UNCHANGED thread
             ELSE IF f.op = "update"
             THEN /\ thread' = SetTop(t, [f EXCEPT !.pc = "handle", !.target = target])
                  /\ obs' = <<read>>
                  /\ UNCHANGED outcome
             ELSE /\ thread' = Returned(t)
                  /\ obs' = <<read, Obs(t, "return", "cache", s, c, target = f.target)>>
                  /\ UNCHANGED outcome
        /\ UNCHANGED <<fixed, cache, current_state, lock>>

\* const auto& transitions = current_state->get_transitions(), lines 267 and 302
ScanBegin(t) ==
    LET f == Top(t)
    IN  /\ outcome = "running"
        /\ f.pc = "scan_begin"
        /\ thread' = SetTop(t, [f EXCEPT !.pc = "scan", !.trs = current_state, !.i = 0])
        /\ obs' = <<>>
        /\ UNCHANGED <<fixed, cache, current_state, lock, outcome>>

\* one turn of the loop, lines 268-278 and 303-314: the guard at index i is
\* evaluated (by can_transition_to only when the target is the queried one)
Scan(t) ==
    LET f == Top(t)
        trs == transitions[f.trs]
        tr == At(trs, f.i)
        r == check_condition(tr, entity_id[current_state], f.arg)
    IN  /\ outcome = "running"
        /\ f.pc = "scan"
        /\ Ready(t)
        /\ IF f.i >= Len(trs)
           THEN /\ thread' = Returned(t)
                /\ obs' = <<Obs(t, "return", "scan", f.trs, cache[f.trs], FALSE)>>
           ELSE IF f.op = "can_transition_to" /\ tr.to # f.target
           THEN /\ thread' = SetTop(t, [f EXCEPT !.i = f.i + 1])
                /\ obs' = <<>>
           ELSE /\ thread' = SetTop(t, IF r THEN [f EXCEPT !.pc = "lock_store", !.target = tr.to,
                                                          !.s = current_state, !.nested = FALSE]
                                            ELSE [f EXCEPT !.i = f.i + 1, !.nested = FALSE])
                /\ obs' = <<Obs(t, "guard", "scan", f.trs, cache[f.trs], r)>>
        /\ UNCHANGED <<fixed, cache, current_state, lock, outcome>>

\* the body of update_cache, line 145, and the release of the mutex
Store(t) ==
    LET f == Top(t)
        c == TransitionCache(f.target, f.i)
    IN  /\ outcome = "running"
        /\ f.pc = "store"
        /\ cache' = [cache EXCEPT ![f.s] = c]
        /\ lock' = [lock EXCEPT ![f.s] = NoThread]
        /\ IF f.op = "update"
           THEN /\ thread' = SetTop(t, [f EXCEPT !.pc = "handle"])
                /\ obs' = <<Obs(t, "emplace", "scan", f.s, c, FALSE)>>
           ELSE /\ thread' = Returned(t)
                /\ obs' = <<Obs(t, "emplace", "scan", f.s, c, FALSE),
                            Obs(t, "return", "scan", f.s, c, TRUE)>>
        /\ UNCHANGED <<fixed, current_state, outcome>>

\* handle_transition, lines 194-196, and the return of update
Handle(t) ==
    LET f == Top(t)
        old == current_state
        path == IF f.probed.present THEN "cache" ELSE "scan"
    IN  /\ outcome = "running"
        /\ f.pc = "handle"
        /\ current_state' = f.target
        /\ thread' = Returned(t)
        /\ obs' = (IF on_exit[old] # NoCallback
                   THEN <<Obs(t, "exit", path, old, cache[old], FALSE)>> ELSE <<>>)
                  \o <<Obs(t, "assign", path, f.target, cache[f.target], FALSE)>>
                  \o (IF on_enter[f.target] # NoCallback
                      THEN <<Obs(t, "enter", path, f.target, cache[f.target], FALSE)>> ELSE <<>>)
        /\ UNCHANGED <<fixed, cache, lock, outcome>>

\* a re-entrant guard, about to be evaluated by the outer call, calls
\* can_transition_to or update on the machine with the arguments it was given
Reenter(t, op, target) ==
    LET f == Top(t)
    IN  /\ outcome = "running"
        /\ Len(thread[t]) < MaxDepth
        /\ f.pc \in {"probe", "scan"}
        /\ PendingGuard(t) = {Reentrant}
        /\ ~f.nested
        /\ IF op = "update" THEN target = NoState ELSE target \in states
        /\ thread' = [thread EXCEPT ![t] = Append(@, Frame(op, f.arg, target, current_state))]
        /\ obs' = <<>>
        /\ UNCHANGED <<fixed, cache, current_state, lock, outcome>>

\* the steps of a call that is under way
Step(t) ==
    \/ LockCache(t)
    \/ Probe(t)
    \/ ReadTarget(t)
    \/ ScanBegin(t)
    \/ Scan(t)
    \/ Store(t)
    \/ Handle(t)

\* the machines the threads run on: every state registered with both
\* callbacks, the first one current, no slot filled yet
Built(conds) ==
    /\ states = Names
    /\ entity_id = [s \in Names |-> 1]
    /\ transitions \in [Names -> UNION {[1..n -> [to : Names, condition : conds]] : n \in 0..MaxTransitions}]
    /\ TotalTransitions <= MaxTransitions
    /\ on_enter = [s \in Names |-> Callback]
    /\ on_exit = [s \in Names |-> Callback]
    /\ cache = [s \in Names |-> nullopt]
    /\ current_state = 1
    /\ last = Call("set_callback", NoState, nullopt, NoState, 0, FALSE, <<>>)
    /\ history = <<>>
    /\ ndebug = FALSE
    /\ outcome = "running"
    /\ null_entries = {}
    /\ lock = [s \in Names |-> NoThread]
    /\ thread = [t \in Threads |-> <<Idle>>]
    /\ obs = <<>>

\* thread 1 calls update while thread 2 calls can_transition_to
InitThreads == Built(Conditions)

NextThreads ==
    \/ \E a \in ArgValues : BeginCall(1, "update", NoState, a)
    \/ \E target \in Names, a \in ArgValues : BeginCall(2, "can_transition_to", target, a)
    \/ \E t \in Threads : Step(t)

SpecThreads == InitThreads /\ [][NextThreads]_vars

\* one thread, guards that may call back into the machine
InitReentrant == Built(Conditions \cup {Reentrant})

NextReentrant ==
    \/ \E a \in ArgValues : BeginCall(1, "update", NoState, a)
    \/ \E target \in Names, a \in ArgValues : BeginCall(1, "can_transition_to", target, a)
    \/ Step(1)
    \/ \E target \in Names : Reenter(1, "can_transition_to", target)
    \/ Reenter(1, "update", NoState)
    \/ Relock(1)

SpecReentrant == InitReentrant /\ [][NextReentrant]_vars

\* ------------------------------------------------- the program main.cpp ---
\* PlayerState (the model numbers the enumerators from 1: 0 is the null pointer)
IDLE == 1
WALKING == 2
RUNNING == 3

\* speeds and thresholds in tenths: 0.1f, 5.0f, 0.2f, 6.0f
WalkThreshold == 1
RunThreshold == 50
SpeedWalk == 2
SpeedRun == 60

MaxCalls == 4

\* the machine main builds before it calls start (lines 16 to 65)
InitMain ==
    /\ states = {IDLE, WALKING, RUNNING}
    /\ entity_id = [s \in {IDLE, WALKING, RUNNING} |-> 1]
    /\ transitions = [s \in {IDLE, WALKING, RUNNING} |->
                         IF s = IDLE THEN <<Transition(WALKING, WalkThreshold)>>
                         ELSE IF s = WALKING THEN <<Transition(RUNNING, RunThreshold)>>
                         ELSE <<>>]
    /\ on_enter = [s \in {IDLE, WALKING, RUNNING} |-> IF s = IDLE THEN NoCallback ELSE Callback]
    /\ on_exit = [s \in {IDLE, WALKING, RUNNING} |-> IF s = IDLE THEN NoCallback ELSE Callback]
    /\ cache = [s \in {IDLE, WALKING, RUNNING} |-> nullopt]
    /\ current_state = IDLE
    /\ last = Call("set_callback", NoState, nullopt, NoState, 0, FALSE, <<>>)
    /\ history = <<>>
    /\ ndebug = FALSE
    /\ outcome = "running"
    /\ null_entries = {}
    /\ lock = [s \in Names |-> NoThread]
    /\ thread = [t \in Threads |-> <<Idle>>]
    /\ obs = <<>>

\* one call of the driver, with the state get_current_state() then returns
\* and the callbacks the call fired
Driven(op, a) ==
    /\ Len(history) < MaxCalls
    /\ history' = Append(history,
                         [op |-> op, arg |-> a, current |-> current_state',
                          callbacks |-> SelectSeq(last'.log,
                                                  LAMBDA e : e.ev \in {"enter", "exit"})])
    /\ UNCHANGED <<ndebug, outcome, null_entries, threads>>

MainStart == StartCall /\ Driven("start", 0)

MainUpdate(a) == UpdateCall(a) /\ Driven("update", a)

NextMain ==
    \/ MainStart
    \/ \E a \in {0, SpeedWalk, SpeedRun} : MainUpdate(a)

SpecMain == InitMain /\ [][NextMain]_vars

TypeOK ==
    /\ states \subseteq Names
    /\ current_state \in Names \cup {NoState}
    /\ \A s \in Names : Len(transitions[s]) <= MaxTransitions

\* ------------------------------------------------- reading the record ----
\* the events of the given kinds a call's log holds, in order
Events(log, kinds) == SelectSeq(log, LAMBDA e : e.ev \in kinds)

Min(S) == CHOOSE x \in S : \A y \in S : x <= y

\* the indices of state s's transitions whose guard is true for a
TrueIdx(s, a) ==
    {i \in 0..(Len(transitions[s]) - 1) :
        condition(At(transitions[s], i).condition, entity_id[s], a)}

\* the call performed a transition
Transitioned(log) == Events(log, {"assign"}) # <<>>

\* the call took the cached path: it evaluated the cached guard and nothing else
CachedPath(log) ==
    /\ Len(Events(log, {"guard"})) = 1
    /\ Events(log, {"guard"})[1].path = "cache"
    /\ Events(log, {"guard"})[1].ret

\* the call found its transition by the full scan
ScanMatch(log) == Events(log, {"emplace"}) # <<>>

\* ------------------------------------------------------------- claims ----
\* C1: first-match priority.  When update(args) is called while S is current
\* and two or more of S's guards are true for args, the machine moves to the
\* target of the lowest-index one, whatever S's cache slot holds.
FirstMatchPriority ==
    (last.op = "update" /\ Cardinality(TrueIdx(last.from, last.arg)) >= 2)
        => current_state = At(transitions[last.from], Min(TrueIdx(last.from, last.arg))).to

\* C2: cache soundness.  After an update that performed a transition found by
\* the full scan, an immediately following update whose args satisfy that same
\* guard takes the cached path, evaluates exactly one guard and reaches the
\* identical target.
CacheSoundness ==
    [][(/\ last.op = "update" /\ ScanMatch(last.log)
        /\ last'.op = "update"
        /\ condition(At(transitions[last.from],
                        Events(last.log, {"emplace"})[1].idx).condition,
                     entity_id[last.from], last'.arg))
       => (/\ CachedPath(last'.log)
           /\ Transitioned(last'.log)
           /\ current_state' = current_state)]_vars

\* C3: enter/exit ordering.  A transition performed by update from A to B
\* (A = B included) invokes exactly A.on_exit with A's entity_id, then
\* B.on_enter with B's entity_id, each only if set; the current state is A
\* during on_exit and B during on_enter.
EnterExitOrdering ==
    (last.op = "update" /\ Transitioned(last.log))
        => LET A == last.from
               B == current_state
           IN  Events(last.log, {"exit", "assign", "enter"}) =
                   (IF on_exit[A] # NoCallback
                    THEN <<CallbackEv("exit", A, entity_id[A], A)>> ELSE <<>>)
                   \o <<AssignEv(B)>>
                   \o (IF on_enter[B] # NoCallback
                       THEN <<CallbackEv("enter", B, entity_id[B], B)>> ELSE <<>>)

EnterExitOrderingWitness ==
    /\ last.op = "update" /\ Transitioned(last.log)
    /\ current_state # last.from
    /\ entity_id[current_state] # entity_id[last.from]
    /\ on_exit[last.from] # NoCallback /\ on_enter[current_state] # NoCallback
    /\ on_enter[last.from] # NoCallback /\ on_exit[current_state] # NoCallback

\* C4: no-match stability.  When update(args) finds no guard of the current
\* state true for args, the current state is unchanged, no callback fires and
\* the current state's cache slot is empty afterwards, whatever it held.
NoMatchStability ==
    (last.op = "update" /\ TrueIdx(last.from, last.arg) = {})
        => /\ current_state = last.from
           /\ Events(last.log, {"exit", "assign", "enter"}) = <<>>
           /\ ~cache[last.from].present

NoMatchStabilityWitness ==
    /\ last.op = "update" /\ TrueIdx(last.from, last.arg) = {}
    /\ last.precache.present
    /\ Len(transitions[last.from]) >= 2
    /\ on_exit[last.from] # NoCallback /\ on_enter[last.from] # NoCallback

\* what update(a) does when called with state `from` current and c in its slot
UpdateFrom(from, c, a) == update(Machine(from, [cache EXCEPT ![from] = c], <<>>), a)

\* C5: can_transition_to(target, args) returns true exactly when update(args),
\* called in the same machine state, would perform a transition to target.
CanTransitionAgreesWithUpdate ==
    last.op = "can_transition_to"
        => (last.ret <=>
               LET m == UpdateFrom(last.from, last.precache, last.arg)
               IN  Transitioned(m.log) /\ m.current_state = last.target)

\* C6: can_transition_to invokes no callback and leaves the current state as
\* it was, whatever it returns and whichever path it takes.
CanTransitionKeepsControlState ==
    last.op = "can_transition_to"
        => /\ current_state = last.from
           /\ Events(last.log, {"exit", "assign", "enter"}) = <<>>

CanTransitionKeepsControlStateWitness ==
    /\ last.op = "can_transition_to" /\ last.ret
    /\ CachedPath(last.log)
    /\ last.target # last.from
    /\ on_exit[last.from] # NoCallback /\ on_enter[last.target] # NoCallback

\* C7: cache invalidation.  When update(args) finds the cached guard of the
\* current state false for args, it clears the slot and scans the transitions
\* in insertion order: it moves to the first one whose guard is true and
\* caches it, or stays in place with an empty slot when there is none.
CacheInvalidation ==
    (/\ last.op = "update" /\ last.precache.present
     /\ ~condition(At(transitions[last.from], last.precache.transition_idx).condition,
                   entity_id[last.from], last.arg))
        => LET S == last.from
               T == TrueIdx(S, last.arg)
               n == IF T = {} THEN Len(transitions[S]) ELSE Min(T) + 1
               probe == GuardEv("cache", S, last.precache.transition_idx, entity_id[S], FALSE)
               scan == [k \in 1..n |-> GuardEv("scan", S, k - 1, entity_id[S], (k - 1) \in T)]
           IN  /\ Events(last.log, {"guard", "reset"}) = <<probe, ResetEv(S)>> \o scan
               /\ IF T = {}
                  THEN /\ current_state = S
                       /\ ~Transitioned(last.log)
                       /\ ~cache[S].present
                  ELSE /\ current_state = At(transitions[S], Min(T)).to
                       /\ cache[S] = TransitionCache(At(transitions[S], Min(T)).to, Min(T))

CacheInvalidationWitness ==
    /\ last.op = "update" /\ last.precache.present
    /\ ~condition(At(transitions[last.from], last.precache.transition_idx).condition,
                  entity_id[last.from], last.arg)
    /\ TrueIdx(last.from, last.arg) # {}
    /\ cache[last.from].present
    /\ cache[last.from].transition_idx # last.precache.transition_idx

\* C8: cache consistency.  Every present cache slot holds a valid index into
\* its own state's transition sequence and the target of that transition.
CacheConsistency ==
    \A s \in Names :
        cache[s].present
            => /\ cache[s].transition_idx < Len(transitions[s])
               /\ cache[s].target = At(transitions[s], cache[s].transition_idx).to

CacheConsistencyWitness ==
    /\ last.op = "can_transition_to" /\ last.ret /\ ScanMatch(last.log)
    /\ cache[last.from].present
    /\ cache[last.from].transition_idx = 1
    /\ At(transitions[last.from], 0).to # cache[last.from].target

\* C9: once a state has been added the current state is a state of the
\* registry; the first state added becomes current and no later add_state
\* changes which state is current.
CurrentStateInRegistry ==
    /\ states # {} => current_state \in states
    /\ last.op = "add_state"
           => current_state = (IF last.from = NoState THEN last.target ELSE last.from)

CurrentStateInRegistryWitness ==
    /\ last.op = "add_state" /\ ~last.ret
    /\ last.from # NoState /\ last.target # last.from
    /\ last.target \in states
    /\ current_state = last.from

\* C10: an update changes the current state at most once, and the new current
\* state is the target of a transition owned by the state that was current
\* when the call began and whose guard is true for the call's args.
AtMostOneStateChange ==
    last.op = "update"
        => /\ Len(Events(last.log, {"assign"})) <= 1
           /\ ~Transitioned(last.log) => current_state = last.from
           /\ Transitioned(last.log)
                  => /\ current_state = Events(last.log, {"assign"})[1].state
                     /\ \E i \in TrueIdx(last.from, last.arg) :
                            At(transitions[last.from], i).to = current_state

AtMostOneStateChangeWitness ==
    /\ last.op = "update" /\ Transitioned(last.log)
    /\ Cardinality(TrueIdx(last.from, last.arg)) >= 2
    /\ At(transitions[last.from], 0).to # At(transitions[last.from], 1).to
    /\ current_state # last.from

\* C11: idempotent state creation.  add_state(name, id) for a name that
\* exists, with the same or another id, returns the existing state and leaves
\* the registry, that state's entity_id, transitions, callbacks and cache,
\* and the current state as they were.
IdempotentAddState ==
    [][(last'.op = "add_state" /\ last'.target \in states)
       => /\ last'.ret
          /\ states' = states
          /\ entity_id' = entity_id
          /\ transitions' = transitions
          /\ on_enter' = on_enter /\ on_exit' = on_exit
          /\ cache' = cache
          /\ current_state' = current_state]_vars

IdempotentAddStateWitness ==
    /\ last.op = "add_state" /\ last.ret
    /\ last.arg # entity_id[last.target]
    /\ last.target # current_state
    /\ transitions[last.target] # <<>>
    /\ cache[last.target].present
    /\ on_enter[last.target] # NoCallback

\* C15: frame of update.  An update that begins with S current changes only
\* the current pointer and S's cache slot: the registry, every state's
\* transitions, callbacks and entity_id and every other state's cache slot
\* (the slot of the state moved to included) stay as they were.
UpdateFrame ==
    [][last'.op = "update"
       => /\ states' = states
          /\ entity_id' = entity_id
          /\ transitions' = transitions
          /\ on_enter' = on_enter /\ on_exit' = on_exit
          /\ \A s \in Names \ {current_state} : cache'[s] = cache[s]]_vars

UpdateFrameWitness ==
    /\ last.op = "update" /\ ScanMatch(last.log)
    /\ current_state # last.from
    /\ cache[current_state].present
    /\ cache[last.from] # last.precache

\* C16: whenever can_transition_to(target, args) returns true, the slot it
\* leaves on the current state equals the slot update(args), called in the
\* same machine state, would have left on that state.
CanTransitionWarmsAsUpdate ==
    (last.op = "can_transition_to" /\ last.ret)
        => cache[last.from] = UpdateFrom(last.from, last.precache, last.arg).cache[last.from]

\* the guard evaluations of the last call, and the index of the transition taken
GuardLog == Events(last.log, {"guard"})

CacheHit == last.precache.present /\ GuardLog # <<>> /\ GuardLog[1].path = "cache" /\ GuardLog[1].ret

\* C17: every update ends; on a cache hit it evaluates exactly the cached
\* guard; otherwise the scan evaluates guards in insertion order up to the
\* first true one, so that no guard with a higher index than the taken
\* transition is evaluated and no guard is evaluated twice within one call.
GuardEvaluationBound ==
    last.op = "update"
        => /\ CacheHit => GuardLog = <<GuardEv("cache", last.from, last.precache.transition_idx,
                                               entity_id[last.from], TRUE)>>
           /\ \A j, k \in 1..Len(GuardLog) : j # k => GuardLog[j].idx # GuardLog[k].idx
           /\ ScanMatch(last.log)
                  => \A j \in 1..Len(GuardLog) :
                         GuardLog[j].idx <= Events(last.log, {"emplace"})[1].idx

\* C17 as amended: on a cache miss the cached guard, found false by the probe,
\* may be evaluated once more by the scan and may have a higher index than the
\* transition taken; the scan itself evaluates indices 0, 1, ... in order, each
\* once, and stops at the first true guard, so a call evaluates at most n + 1
\* guards.
GuardEvaluationBoundAmended ==
    last.op = "update"
        => LET S == last.from
               T == TrueIdx(S, last.arg)
               n == IF T = {} THEN Len(transitions[S]) ELSE Min(T) + 1
               probe == IF last.precache.present
                        THEN <<GuardEv("cache", S, last.precache.transition_idx,
                                       entity_id[S], FALSE)>>
                        ELSE <<>>
               scan == [k \in 1..n |-> GuardEv("scan", S, k - 1, entity_id[S], (k - 1) \in T)]
           IN  /\ CacheHit => GuardLog = <<GuardEv("cache", S, last.precache.transition_idx,
                                                   entity_id[S], TRUE)>>
               /\ ~CacheHit => GuardLog = probe \o scan
               /\ Len(GuardLog) <= Len(transitions[S]) + 1

GuardEvaluationBoundWitness ==
    /\ last.op = "update" /\ ~CacheHit /\ last.precache.present
    /\ ScanMatch(last.log)
    /\ last.precache.transition_idx > Events(last.log, {"emplace"})[1].idx
    /\ Len(GuardLog) = 2

\* C19: a can_transition_to call that returns false leaves the current
\* state's cache slot exactly as it was before the call.
CanTransitionFalseKeepsCache ==
    (last.op = "can_transition_to" /\ ~last.ret) => cache[last.from] = last.precache

\* C19 as amended: a call that returns false leaves the slot as it was when
\* the slot was empty or its guard is true for args (the cached target is not
\* the queried one), and leaves it empty when the cached guard is false for
\* args.
CanTransitionFalseCache ==
    (last.op = "can_transition_to" /\ ~last.ret)
        => cache[last.from] =
               (IF /\ last.precache.present
                   /\ condition(At(transitions[last.from],
                                   last.precache.transition_idx).condition,
                                entity_id[last.from], last.arg)
                THEN last.precache ELSE nullopt)

CanTransitionFalseCacheWitness ==
    /\ last.op = "can_transition_to" /\ ~last.ret
    /\ last.precache.present
    /\ ~cache[last.from].present
    /\ Len(transitions[last.from]) >= 2

\* the calls of main.cpp, lines 68 to 77, and what each is to leave and fire
Script ==
    <<[op |-> "start", arg |-> 0, current |-> IDLE, callbacks |-> <<>>],
      [op |-> "update", arg |-> SpeedWalk, current |-> WALKING,
       callbacks |-> <<CallbackEv("enter", WALKING, 1, WALKING)>>],
      [op |-> "update", arg |-> SpeedWalk, current |-> WALKING, callbacks |-> <<>>],
      [op |-> "update", arg |-> SpeedRun, current |-> RUNNING,
       callbacks |-> <<CallbackEv("exit", WALKING, 1, WALKING),
                       CallbackEv("enter", RUNNING, 1, RUNNING)>>]>>

\* the first k calls made are the first k calls of the script
Follows(k) ==
    /\ k <= Len(history) /\ k <= Len(Script)
    /\ \A j \in 1..k : history[j].op = Script[j].op /\ history[j].arg = Script[j].arg

\* C14: on the machine of main.cpp the calls start(), update(0.2),
\* update(0.2), update(6.0) leave the current state IDLE, WALKING, WALKING,
\* RUNNING and fire enter(WALKING) in the first update, nothing in the second
\* and exit(WALKING) then enter(RUNNING) in the third.
ReferenceScenario ==
    \A k \in 1..Len(history) : Follows(k) => history[k] = Script[k]

ReferenceScenarioWitness == Len(history) = Len(Script) /\ Follows(Len(Script))

\* C13: a call that breaks a precondition (add_transition with from or to
\* missing, set_callback or can_transition_to with the state missing, update,
\* start or get_current_state before any state exists) ends in the assertion
\* failure and leaves the registry (no entry for the missing name), the
\* transitions, callbacks, caches and the current state unchanged.
PreconditionViolationFatal ==
    [][(outcome = "running" /\ outcome' # "running")
       => /\ outcome' = "assert"
          /\ null_entries' = null_entries
          /\ UNCHANGED <<states, entity_id, transitions, on_enter, on_exit, cache,
                         current_state>>]_vars

\* C12: every read and every write of a state's cache slot made by update
\* and can_transition_to (the probe, the invalidation, the store, the read of
\* the cached target) is made by a thread that holds that state's cache lock.
CacheAccessSerialized ==
    \A k \in 1..Len(obs) :
        obs[k].kind \in {"probe", "reset", "emplace", "read"} => obs[k].state \in obs[k].held

\* C20: with update on one thread and can_transition_to on another, the slot
\* update reads for its target after a successful probe is still present and
\* is the entry whose guard the probe evaluated.
ProbeThenReadAtomic ==
    \A k \in 1..Len(obs) :
        (obs[k].kind = "read" /\ obs[k].op = "update")
            => (obs[k].slot.present /\ obs[k].slot = obs[k].probed)

\* the guards and callbacks run, and the slot is stored, under the locks the
\* claim C18 names: the re-checked guard of the probe under the lock of the
\* probed state, the guards of the scan and the callbacks under none, the
\* store under the lock of the stored state only
GuardsAndCallbacksLocking ==
    \A k \in 1..Len(obs) :
        LET e == obs[k]
        IN  /\ (e.kind = "guard" /\ e.path = "cache") => e.held = {e.state}
            /\ (e.kind = "guard" /\ e.path = "scan") => e.held = {}
            /\ e.kind \in {"exit", "enter"} => e.held = {}
            /\ e.kind = "emplace" => e.held = {e.state}

\* the call a guard made finds the lock owned by its own thread
Relocking(t) == \E k \in 1..Len(obs) : obs[k].kind = "relock" /\ obs[k].thread = t

\* the guard of thread t that made the innermost call runs in the probe
FromProbe(t) == Len(thread[t]) > 1 /\ thread[t][Len(thread[t]) - 1].pc = "probe"

\* C18 as stated: the locking above, and a guard that calls update or
\* can_transition_to on its machine blocks for ever on the state's lock when
\* it runs in the cache probe and does not block when it runs in the scan.
LockDiscipline ==
    /\ GuardsAndCallbacksLocking
    /\ \A t \in Threads :
        /\ Relocking(t) => (FromProbe(t) /\ Top(t).pc = "blocked" /\ outcome = "running")
        /\ Top(t).pc = "blocked" => FromProbe(t)
        /\ FromProbe(t) => Top(t).pc \in {"lock_probe", "blocked"}

\* C18 (amended): the locking above; the call made by a guard that runs in
\* the cache probe never gets the lock: it blocks for ever or its lock()
\* fails with an error, the relock being undefined; the call made by a guard
\* that runs in the scan finds the lock free.
LockDisciplineAmended ==
    /\ GuardsAndCallbacksLocking
    /\ \A t \in Threads :
        /\ Relocking(t) => (FromProbe(t) /\ (Top(t).pc = "blocked" \/ outcome = "throw"))
        /\ Top(t).pc = "blocked" => FromProbe(t)
        /\ FromProbe(t) => Top(t).pc \in {"lock_probe", "blocked"}

\* a guard evaluated by the probe has called into the machine and its call is blocked
LockDisciplineWitness ==
    /\ Relocking(1)
    /\ Top(1).pc = "blocked"
    /\ thread[1][1].pc = "probe"
    /\ lock[thread[1][1].s] = 1

====
